---- MODULE Spec2Model ----
(***************************************************************************)
(* Model of backend/app.py of excel-comparator: the reconciliation of a   *)
(* benchmark table with a new table (find_duplicates_and_unique), the     *)
(* highlighting of the unique table (save_with_highlights) and the two    *)
(* HTTP handlers (compare_files, download_file).                          *)
(*                                                                         *)
(* A table (pandas DataFrame restricted to COLUMNS) is a sequence of rows; *)
(* a row is a sequence of cells indexed by column position; a cell is a   *)
(* string.  A row of the unique table carries a fifth cell, the           *)
(* 'Change Summary'.                                                       *)
(***************************************************************************)
EXTENDS Integers, Sequences, FiniteSets, TLC

\* ------------------------------------------------------------------ data

COLUMNS == <<"ID", "Name", "Age", "City">>

\* Python None, the value normalize_nulls leaves in a null cell.
None == "None"
\* An empty spreadsheet cell as read_excel delivers it (float NaN).
NaN == "NaN"
\* A cell holding an empty or whitespace-only string.
Blank == " "

\* Bound on the rows uploaded in one request (both files together).
MaxRows == 4

\* Raw cell values per column the uploads are drawn from.
IdValues == {NaN, "1", "2"}
NameValues == {Blank, "a"}
AgeValues == {"30"}
CityValues == {"x"}

RawRows == {<<i, n, a, c>> : i \in IdValues, n \in NameValues, a \in AgeValues, c \in CityValues}

\* Position of the values in the lexicographic key order of a sorted merge
\* (nulls last).
ValueOrder == <<"1", "2", "30", "a", "x", None>>

\* ------------------------------------------------------------- helpers

\* The concatenation of a sequence of sequences.
RECURSIVE Concat(_)
Concat(ss) == IF ss = <<>> THEN <<>> ELSE Head(ss) \o Concat(Tail(ss))

\* n copies of x.
Repeat(x, n) == [k \in 1..n |-> x]

\* The number of rows of df equal to row.
Count(df, row) == Cardinality({k \in 1..Len(df) : df[k] = row})

\* All orders in which the elements of the finite set S can be visited.
Orders(S) == {f \in [1..Cardinality(S) -> S] : \A a, b \in 1..Cardinality(S) : f[a] = f[b] => a = b}

\* The elements of s without repetition, in order of first appearance.
Uniques(s) == Concat([k \in 1..Len(s) |-> IF \E j \in 1..(k - 1) : s[j] = s[k] THEN <<>> ELSE <<s[k]>>])

Ord(v) == CHOOSE k \in 1..Len(ValueOrder) : ValueOrder[k] = v

\* Lexicographic order of two rows.
RowLess(r, s) == \E c \in 1..Len(COLUMNS) : /\ Ord(r[c]) < Ord(s[c])
                                           /\ \A d \in 1..(c - 1) : r[d] = s[d]

\* The rows of the set S in lexicographic order.
RECURSIVE SortRows(_)
SortRows(S) == IF S = {} THEN <<>>
               ELSE LET m == CHOOSE r \in S : \A s \in S \ {r} : RowLess(r, s)
                    IN <<m>> \o SortRows(S \ {m})

\* ------------------------------------------------------- normalize_nulls

normalize_nulls(df) == [k \in 1..Len(df) |-> [c \in 1..Len(COLUMNS) |-> IF df[k][c] \in {NaN, Blank} THEN None ELSE df[k][c]]]

\* ---------------------------------------------------------------- merge

\* The join keys of pd.merge(left, right, on=COLUMNS): the distinct rows of
\* both frames, either in order of first appearance (the left frame first)
\* or sorted lexicographically.
MergeKeys(left, right, sorted) ==
    IF sorted THEN SortRows({left[k] : k \in 1..Len(left)} \cup {right[k] : k \in 1..Len(right)})
    ELSE Uniques(left \o right)

\* pd.merge(left, right, how="inner", on=COLUMNS): every pairing of a left
\* row with an equal right row (null cells match each other).  A pandas that
\* follows the documented order of the join (documented) keeps the order of
\* the left rows; otherwise the pairings come key by key, the keys in order
\* of first appearance.
merge_inner(left, right, documented) ==
    IF documented THEN Concat([k \in 1..Len(left) |-> Repeat(left[k], Count(right, left[k]))])
    ELSE LET keys == MergeKeys(left, right, FALSE)
         IN Concat([k \in 1..Len(keys) |-> Repeat(keys[k], Count(left, keys[k]) * Count(right, keys[k]))])

\* Variant of merge_outer: how="left", the keys of the left frame only.
merge_left(left, right, documented) ==
    LET keys == MergeKeys(left, <<>>, documented)
    IN Concat([k \in 1..Len(keys) |-> Repeat(keys[k] \o <<IF Count(right, keys[k]) = 0 THEN "left_only" ELSE "both">>, Count(left, keys[k]) * (IF Count(right, keys[k]) = 0 THEN 1 ELSE Count(right, keys[k])))])

\* pd.merge(left, right, how="outer", indicator=True, on=COLUMNS): each row
\* is the key followed by the _merge indicator.  The rows come key by key;
\* the documented order of an outer join sorts the keys lexicographically,
\* otherwise they are in order of first appearance.
merge_outer(left, right, documented) ==
    LET keys == MergeKeys(left, right, documented)
        group(key) ==
            LET lc == Count(left, key)
                rc == Count(right, key)
            IN IF rc = 0 THEN Repeat(key \o <<"left_only">>, lc)
               ELSE IF lc = 0 THEN Repeat(key \o <<"right_only">>, rc)
               ELSE Repeat(key \o <<"both">>, lc * rc)
    IN Concat([k \in 1..Len(keys) |-> group(keys[k])])

\* merged[merged["_merge"] == which].drop(columns=["_merge"])
select_merge(merged, which) ==
    LET sel == SelectSeq(merged, LAMBDA r : r[Len(COLUMNS) + 1] = which)
    IN [k \in 1..Len(sel) |-> SubSeq(sel[k], 1, Len(COLUMNS))]

\* ------------------------------------------ find_duplicates_and_unique

IdCol == 1

\* set(df['ID'].dropna())
id_set(df) == {df[k][IdCol] : k \in 1..Len(df)} \ {None}

common_ids(df_benchmark, df_new) == id_set(df_benchmark) \cap id_set(df_new)

\* df[df['ID'] == id_val]
rows_with_id(df, id_val) == SelectSeq(df, LAMBDA r : r[IdCol] = id_val)

\* bench_row[col] != new_row[col]
cell_differs(bench_row, new_row, c) == bench_row[c] # new_row[c]

\* The names of the non-ID columns in which the two rows differ, in COLUMNS
\* order.
changed_columns(bench_row, new_row) ==
    Concat([c \in 1..Len(COLUMNS) |-> IF c # IdCol /\ cell_differs(bench_row, new_row, c) THEN <<COLUMNS[c]>> ELSE <<>>])

\* sep.join(names)
RECURSIVE Join(_, _)
Join(names, sep) == IF names = <<>> THEN ""
                    ELSE IF Len(names) = 1 THEN names[1]
                    ELSE names[1] \o sep \o Join(Tail(names), sep)

\* Variant of pairable: the first row of each side is taken whenever there is
\* one.
pairable_first(bench_rows, new_rows) == Len(bench_rows) >= 1 /\ Len(new_rows) >= 1

\* len(bench_rows) == 1 and len(new_rows) == 1
pairable(bench_rows, new_rows) == Len(bench_rows) = 1 /\ Len(new_rows) = 1

\* The loop over common_ids, visited in id_order: the new table's version of
\* every ID paired one to one whose non-ID cells differ, with its summary.
modified_rows(df_benchmark, df_new, id_order) ==
    LET visit(id_val) ==
            LET bench_rows == rows_with_id(df_benchmark, id_val)
                new_rows == rows_with_id(df_new, id_val)
            IN IF pairable(bench_rows, new_rows)
               THEN LET changes == changed_columns(bench_rows[1], new_rows[1])
                    IN IF changes # <<>> THEN <<new_rows[1] \o <<Join(changes, ", ")>>>> ELSE <<>>
               ELSE <<>>
    IN Concat([k \in 1..Len(id_order) |-> visit(id_order[k])])

\* frame rows, each with 'Change Summary' set to summary
annotate(frame, summary) == [k \in 1..Len(frame) |-> frame[k] \o <<summary>>]

\* Variant of unique_rows: the removed rows are added before the new rows.
unique_rows_removed_first(modified, only_in_new, only_in_benchmark) ==
    modified \o annotate(only_in_benchmark, "Removed Entry") \o annotate(only_in_new, "New Entry")

\* unique_rows: modified rows, then new rows, then removed rows.
unique_rows(modified, only_in_new, only_in_benchmark) ==
    modified \o annotate(only_in_new, "New Entry") \o annotate(only_in_benchmark, "Removed Entry")

\* find_duplicates_and_unique(df_benchmark, df_new).  id_order is the order
\* in which the Python set common_ids is iterated and documented tells
\* whether pd.merge follows its documented row order: both depend on the
\* interpreter and the pandas build, not on the program.
find_duplicates_and_unique(benchmark, new, id_order, documented) ==
    LET df_b == normalize_nulls(benchmark)
        df_n == normalize_nulls(new)
        merged == merge_outer(df_b, df_n, documented)
    IN [duplicates |-> merge_inner(df_b, df_n, documented),
        unique_df |-> unique_rows(modified_rows(df_b, df_n, id_order),
                                  select_merge(merged, "right_only"),
                                  select_merge(merged, "left_only"))]

\* ------------------------------------------------- save_with_highlights

SummaryCol == Len(COLUMNS) + 1

\* s.split(sep)
RECURSIVE Split(_, _)
Split(s, sep) ==
    LET hits == {k \in 1..(Len(s) - Len(sep) + 1) : SubSeq(s, k, k + Len(sep) - 1) = sep}
    IN IF hits = {} THEN <<s>>
       ELSE LET k == CHOOSE h \in hits : \A g \in hits : h <= g
            IN <<SubSeq(s, 1, k - 1)>> \o Split(SubSeq(s, k + Len(sep), Len(s)), sep)

\* Variant of columns_to_fill: only 'New Entry' fills the whole row, and
\* 'Removed Entry' is split like a list of field names.
columns_to_fill_new_only(change_cols) ==
    IF change_cols \in {None, ""} THEN {}
    ELSE IF change_cols = "New Entry" THEN 1..Len(COLUMNS)
    ELSE LET cols_to_highlight == Split(change_cols, ", ")
         IN {col_idx \in 1..Len(COLUMNS) : \E k \in 1..Len(cols_to_highlight) : cols_to_highlight[k] = COLUMNS[col_idx]}

\* The column indexes filled in a sheet row whose 'Change Summary' cell holds
\* change_cols.
columns_to_fill(change_cols) ==
    IF change_cols \in {None, ""} THEN {}
    ELSE IF change_cols = "New Entry" \/ change_cols = "Removed Entry" THEN 1..Len(COLUMNS)
    ELSE LET cols_to_highlight == Split(change_cols, ", ")
         IN {col_idx \in 1..Len(COLUMNS) : \E k \in 1..Len(cols_to_highlight) : cols_to_highlight[k] = COLUMNS[col_idx]}

\* save_with_highlights(df, filename): the cells <<row_idx, col_idx>> of the
\* written sheet that carry the yellow fill.  Sheet row 1 is the header and
\* sheet row k + 1 holds df row k.
save_with_highlights(df) ==
    IF df = <<>> THEN {}
    ELSE UNION {{<<row_idx, col_idx>> : col_idx \in columns_to_fill(df[row_idx - 1][SummaryCol])} : row_idx \in 2..(Len(df) + 1)}

\* --------------------------------------------------------- compare_files

VARIABLES
    pc,                \* "request": the upload is being put together; "responded"
    attached,          \* the form fields of the request that carry a file
    benchmark_file,    \* the rows of the uploaded benchmark sheet
    new_data_file,     \* the rows of the uploaded new-data sheet
    id_order,          \* the order in which common_ids was iterated
    documented_order,  \* whether pd.merge followed its documented row order
    duplicates,        \* the table written to duplicates.xlsx
    unique_entities,   \* the table written to unique_highlighted.xlsx
    fills,             \* the filled cells of unique_highlighted.xlsx
    response,          \* the response: status code and stats
    client_pc,         \* per client: where its /compare request stands
    disk,              \* generated_files: per file name, the request that wrote it
    received           \* per client and file name: what /download delivered

compare_vars == <<pc, attached, benchmark_file, new_data_file, id_order, documented_order, duplicates, unique_entities, fills, response>>

http_vars == <<client_pc, disk, received>>

vars == <<compare_vars, http_vars>>

\* Bound on the clients issuing requests at the same time.
MaxClients == 2

Clients == 1..MaxClients

FileNames == {"duplicates.xlsx", "unique_highlighted.xlsx"}

\* No file of that name in generated_files.
Absent == 0

\* Nothing downloaded yet.
Nothing == [status |-> 0, file |-> Absent]

HttpIdle ==
    /\ client_pc = [c \in Clients |-> "start"]
    /\ disk = [f \in FileNames |-> Absent]
    /\ received = [c \in Clients |-> [f \in FileNames |-> Nothing]]

NoResponse == [status |-> 0]

Init ==
    /\ pc = "request"
    /\ attached = {}
    /\ benchmark_file = <<>>
    /\ new_data_file = <<>>
    /\ id_order = <<>>
    /\ documented_order = FALSE
    /\ duplicates = <<>>
    /\ unique_entities = <<>>
    /\ fills = {}
    /\ response = NoResponse
    /\ HttpIdle

\* The client attaches a (so far empty) sheet as form field name.
Attach(name) ==
    /\ pc = "request"
    /\ name \notin attached
    /\ attached' = attached \cup {name}
    /\ UNCHANGED <<pc, benchmark_file, new_data_file, id_order, documented_order, duplicates, unique_entities, fills, response, http_vars>>

\* One more row in the benchmark sheet.
AddBenchmarkRow(row) ==
    /\ pc = "request"
    /\ "benchmark" \in attached
    /\ Len(benchmark_file) + Len(new_data_file) < MaxRows
    /\ benchmark_file' = Append(benchmark_file, row)
    /\ UNCHANGED <<pc, attached, new_data_file, id_order, documented_order, duplicates, unique_entities, fills, response, http_vars>>

\* One more row in the new-data sheet.
AddNewDataRow(row) ==
    /\ pc = "request"
    /\ "new_data" \in attached
    /\ Len(benchmark_file) + Len(new_data_file) < MaxRows
    /\ new_data_file' = Append(new_data_file, row)
    /\ UNCHANGED <<pc, attached, benchmark_file, id_order, documented_order, duplicates, unique_entities, fills, response, http_vars>>

\* compare_files with a file missing: 400.
CompareMissing ==
    /\ pc = "request"
    /\ attached # {"benchmark", "new_data"}
    /\ pc' = "responded"
    /\ response' = [status |-> 400]
    /\ UNCHANGED <<attached, benchmark_file, new_data_file, id_order, documented_order, duplicates, unique_entities, fills, http_vars>>

\* compare_files with both files: normalize, reconcile, write both sheets,
\* answer with the stats.
CompareFiles ==
    /\ pc = "request"
    /\ attached = {"benchmark", "new_data"}
    /\ LET df_benchmark == normalize_nulls(benchmark_file)
           df_new == normalize_nulls(new_data_file)
       IN \E documented \in BOOLEAN : \E order \in Orders(common_ids(df_benchmark, df_new)) :
             \E result \in {find_duplicates_and_unique(df_benchmark, df_new, order, documented)} :
                /\ duplicates' = result.duplicates
                /\ unique_entities' = result.unique_df
                /\ fills' = save_with_highlights(result.unique_df)
                /\ response' = [status |-> 200,
                                benchmark_rows |-> Len(df_benchmark),
                                new_rows |-> Len(df_new),
                                duplicates_count |-> Len(result.duplicates),
                                unique_count |-> Len(result.unique_df)]
                /\ id_order' = order
                /\ documented_order' = documented
    /\ pc' = "responded"
    /\ UNCHANGED <<attached, benchmark_file, new_data_file, http_vars>>

Next ==
    \/ \E name \in {"benchmark", "new_data"} : Attach(name)
    \/ \E row \in RawRows : AddBenchmarkRow(row)
    \/ \E row \in RawRows : AddNewDataRow(row)
    \/ CompareMissing
    \/ CompareFiles

Spec == Init /\ [][Next]_vars

\* ------------------------------------- save_with_highlights on its own

\* Bound on the rows of the frame handed to save_with_highlights.
MaxDfRows == 2

\* The change lists a 'Change Summary' is joined from: the non-ID columns
\* and one field name outside COLUMNS, in a fixed order.
SummaryFields == <<"Name", "Age", "City", "Email">>

FieldLists == {SelectSeq(SummaryFields, LAMBDA f : f \in S) : S \in (SUBSET {SummaryFields[k] : k \in 1..Len(SummaryFields)}) \ {{}}}

Summaries == {"New Entry", "Removed Entry"} \cup {Join(names, ", ") : names \in FieldLists}

SaveRows == {row \o <<summary>> : row \in {<<"1", "a", "30", "x">>, <<None, None, "30", "x">>}, summary \in Summaries}

InitSave ==
    /\ pc = "save"
    /\ attached = {}
    /\ benchmark_file = <<>>
    /\ new_data_file = <<>>
    /\ id_order = <<>>
    /\ documented_order = FALSE
    /\ duplicates = <<>>
    /\ unique_entities \in UNION {[1..n -> SaveRows] : n \in 0..MaxDfRows}
    /\ fills = {}
    /\ response = NoResponse
    /\ HttpIdle

\* save_with_highlights(unique_entities, "unique_highlighted.xlsx")
SaveWithHighlights ==
    /\ pc = "save"
    /\ fills' = save_with_highlights(unique_entities)
    /\ pc' = "saved"
    /\ UNCHANGED <<attached, benchmark_file, new_data_file, id_order, documented_order, duplicates, unique_entities, response, http_vars>>

NextSave == SaveWithHighlights

SpecSave == InitSave /\ [][NextSave]_vars

\* ------------------------------------- concurrent /compare and /download

\* compare_files of client c reaches duplicates.to_excel(duplicates_path).
WriteDuplicates(c) ==
    /\ client_pc[c] = "start"
    /\ disk' = [disk EXCEPT !["duplicates.xlsx"] = c]
    /\ client_pc' = [client_pc EXCEPT ![c] = "duplicates_written"]
    /\ UNCHANGED <<received, compare_vars>>

\* compare_files of client c reaches wb.save(file_path) in
\* save_with_highlights.
WriteUnique(c) ==
    /\ client_pc[c] = "duplicates_written"
    /\ disk' = [disk EXCEPT !["unique_highlighted.xlsx"] = c]
    /\ client_pc' = [client_pc EXCEPT ![c] = "unique_written"]
    /\ UNCHANGED <<received, compare_vars>>

\* compare_files of client c returns its JSON; the client starts afresh with
\* the two download links.
Respond(c) ==
    /\ client_pc[c] = "unique_written"
    /\ client_pc' = [client_pc EXCEPT ![c] = "responded"]
    /\ received' = [received EXCEPT ![c] = [f \in FileNames |-> Nothing]]
    /\ UNCHANGED <<disk, compare_vars>>

\* download_file(filename) for client c: the file as it is on disk, or 404.
Download(c, filename) ==
    /\ client_pc[c] \in {"start", "responded"}
    /\ received' = [received EXCEPT ![c][filename] = IF disk[filename] # Absent THEN [status |-> 200, file |-> disk[filename]] ELSE [status |-> 404, file |-> Absent]]
    /\ UNCHANGED <<client_pc, disk, compare_vars>>

InitHttp ==
    /\ pc = "http"
    /\ attached = {}
    /\ benchmark_file = <<>>
    /\ new_data_file = <<>>
    /\ id_order = <<>>
    /\ documented_order = FALSE
    /\ duplicates = <<>>
    /\ unique_entities = <<>>
    /\ fills = {}
    /\ response = NoResponse
    /\ HttpIdle

NextHttp ==
    \/ \E c \in Clients : WriteDuplicates(c)
    \/ \E c \in Clients : WriteUnique(c)
    \/ \E c \in Clients : Respond(c)
    \/ \E c \in Clients, filename \in FileNames : Download(c, filename)

SpecHttp == InitHttp /\ [][NextHttp]_vars

\* ================================================================ claims

\* A /compare request has been answered with a comparison.
Compared == pc = "responded" /\ response.status = 200

DfBenchmark == normalize_nulls(benchmark_file)

DfNew == normalize_nulls(new_data_file)

RowSet(df) == {df[k] : k \in 1..Len(df)}

IdsOf(df) == {df[k][IdCol] : k \in 1..Len(df)}

Content(u) == SubSeq(u, 1, Len(COLUMNS))

\* The section of the unique table a row belongs to by its summary:
\* 1 changed, 2 'New Entry', 3 'Removed Entry'.
Section(u) == IF u[SummaryCol] = "New Entry" THEN 2 ELSE IF u[SummaryCol] = "Removed Entry" THEN 3 ELSE 1

\* The rows (without summary) of one section of a unique table, in order.
SectionRows(unique_df, n) ==
    LET sel == SelectSeq(unique_df, LAMBDA u : Section(u) = n)
    IN [k \in 1..Len(sel) |-> Content(sel[k])]

IdCount(df, id_val) == Len(rows_with_id(df, id_val))

\* a is b with some rows left out.
RECURSIVE IsSubSeq(_, _)
IsSubSeq(a, b) == IF a = <<>> THEN TRUE
                  ELSE IF b = <<>> THEN FALSE
                  ELSE IF Head(a) = Head(b) THEN IsSubSeq(Tail(a), Tail(b))
                  ELSE IsSubSeq(a, Tail(b))

\* The benchmark rows whose ID occurs in no row of the new table.
RemovedById == Cardinality({k \in 1..Len(DfBenchmark) : DfBenchmark[k][IdCol] \notin IdsOf(DfNew)})

\* The benchmark rows that are, as full rows, in no row of the new table.
RemovedByRow == Cardinality({k \in 1..Len(DfBenchmark) : DfBenchmark[k] \notin RowSet(DfNew)})

\* C1: after a comparison, len(DuplicatesTable) + len(UniqueTable) equals
\* len(normalized new table) + removedRowCount, the number of benchmark rows
\* unique to the benchmark.  The claim is taken to hold if it holds for
\* either reading of "unique to the benchmark": by ID (the reading of the
\* spec's scenario) or by full row.
C1_Completeness ==
    Compared =>
        \/ response.duplicates_count + response.unique_count = response.new_rows + RemovedById
        \/ response.duplicates_count + response.unique_count = response.new_rows + RemovedByRow

\* C2: the unique table is the changed rows (rows of the new table, each
\* with the non-empty list of the non-ID columns in which it differs from
\* the benchmark row of its ID), then the 'New Entry' rows
\* (rows of the new table), then the 'Removed Entry' rows (rows of the
\* benchmark table): no row of a later section precedes one of an earlier
\* section.
C2_SectionOrder ==
    Compared =>
        /\ \A i, j \in 1..Len(unique_entities) : i < j => Section(unique_entities[i]) <= Section(unique_entities[j])
        /\ \A k \in 1..Len(unique_entities) :
              LET u == unique_entities[k]
              IN /\ Section(u) = 1 => /\ Content(u) \in RowSet(DfNew)
                                      /\ \E names \in FieldLists :
                                            /\ u[SummaryCol] = Join(names, ", ")
                                            /\ \A c \in 1..Len(COLUMNS) :
                                                  (\E n \in 1..Len(names) : names[n] = COLUMNS[c])
                                                     <=> (c # IdCol /\ \E row \in RowSet(DfBenchmark) : row[IdCol] = u[IdCol] /\ row[c] # u[c])
                                            /\ \A n \in 1..Len(names) : names[n] \in {COLUMNS[c] : c \in 1..Len(COLUMNS)}
                 /\ Section(u) = 2 => Content(u) \in RowSet(DfNew)
                 /\ Section(u) = 3 => Content(u) \in RowSet(DfBenchmark)

\* C2 witness: a comparison whose unique table has all three sections.
C2_Witness ==
    /\ Compared
    /\ \A n \in 1..3 : SectionRows(unique_entities, n) # <<>>

\* C3: no non-null ID is both in a row of the duplicates table and in a
\* changed or 'New Entry' row of the unique table of the same comparison.
C3_Disjoint ==
    Compared =>
        \A d \in 1..Len(duplicates), k \in 1..Len(unique_entities) :
            (Section(unique_entities[k]) \in {1, 2} /\ duplicates[d][IdCol] # None)
                => duplicates[d][IdCol] # unique_entities[k][IdCol]

\* C4: comparing a table with an identical copy of itself gives a duplicates
\* table with the rows of the table, each as often as the table has it, and
\* an empty unique table.
C4_Idempotence ==
    (Compared /\ benchmark_file = new_data_file) =>
        /\ unique_entities = <<>>
        /\ \A row \in RowSet(DfNew) \cup RowSet(duplicates) : Count(duplicates, row) = Count(DfNew, row)

\* C5: with the two tables swapped, the 'New Entry' rows are the 'Removed
\* Entry' rows of the comparison made and the other way round, and the
\* duplicates table has the same set of rows, whatever the iteration and
\* merge order of the swapped call.
C5_SwapSymmetry ==
    Compared =>
        \A documented \in BOOLEAN : \A order \in Orders(common_ids(DfNew, DfBenchmark)) :
            \A swapped \in {find_duplicates_and_unique(new_data_file, benchmark_file, order, documented)} :
               /\ RowSet(SectionRows(unique_entities, 2)) = RowSet(SectionRows(swapped.unique_df, 3))
               /\ RowSet(SectionRows(unique_entities, 3)) = RowSet(SectionRows(swapped.unique_df, 2))
               /\ RowSet(duplicates) = RowSet(swapped.duplicates)

\* C5 witness: a comparison with duplicates, 'New Entry' rows and 'Removed
\* Entry' rows.
C5_Witness ==
    /\ Compared
    /\ duplicates # <<>>
    /\ SectionRows(unique_entities, 2) # <<>>
    /\ SectionRows(unique_entities, 3) # <<>>

\* The column indexes filled in sheet row row_idx.
FilledIn(row_idx) == {cell[2] : cell \in {f \in fills : f[1] = row_idx}}

\* C6: in the sheet save_with_highlights writes, a 'New Entry' or 'Removed
\* Entry' row has exactly its schema columns filled; any other row has
\* exactly the cells filled whose column is named in its summary (a name
\* outside the schema fills nothing), never the ID cell and never the
\* summary cell; no cell outside the data rows is filled.
C6_HighlightCorrect ==
    pc = "saved" =>
        /\ \A cell \in fills : cell[1] \in 2..(Len(unique_entities) + 1)
        /\ \A k \in 1..Len(unique_entities) :
              LET s == unique_entities[k][SummaryCol]
                  filled == FilledIn(k + 1)
              IN IF s \in {"New Entry", "Removed Entry"} THEN filled = 1..Len(COLUMNS)
                 ELSE \A names \in FieldLists :
                         s = Join(names, ", ") =>
                            /\ filled = {c \in 1..Len(COLUMNS) : \E n \in 1..Len(names) : names[n] = COLUMNS[c]}
                            /\ IdCol \notin filled
                            /\ SummaryCol \notin filled

\* C6 witness: a saved sheet with a 'Removed Entry' row filled across and a
\* row whose summary names a schema column and a name outside the schema.
C6_Witness ==
    /\ pc = "saved"
    /\ \E k, m \in 1..Len(unique_entities) :
          /\ unique_entities[k][SummaryCol] = "Removed Entry"
          /\ FilledIn(k + 1) = 1..Len(COLUMNS)
          /\ unique_entities[m][SummaryCol] = "Name, Email"
          /\ FilledIn(m + 1) = {2}

\* C7: for rows with a non-null ID, a row is annotated 'Removed Entry' if and
\* only if it is a benchmark row whose ID is in no row of the new table, and
\* 'New Entry' if and only if it is a new-table row whose ID is in no row of
\* the benchmark table.  (Rows with a null ID are left out: the claim does
\* not say when a null ID occurs in the other table.)
C7_AddedRemovedById ==
    Compared =>
        /\ \A k \in 1..Len(unique_entities) :
              LET u == unique_entities[k]
              IN u[IdCol] # None =>
                    /\ Section(u) = 3 => (Content(u) \in RowSet(DfBenchmark) /\ u[IdCol] \notin IdsOf(DfNew))
                    /\ Section(u) = 2 => (Content(u) \in RowSet(DfNew) /\ u[IdCol] \notin IdsOf(DfBenchmark))
        /\ \A row \in RowSet(DfBenchmark) :
              (row[IdCol] # None /\ row[IdCol] \notin IdsOf(DfNew)) => row \in RowSet(SectionRows(unique_entities, 3))
        /\ \A row \in RowSet(DfNew) :
              (row[IdCol] # None /\ row[IdCol] \notin IdsOf(DfBenchmark)) => row \in RowSet(SectionRows(unique_entities, 2))

\* The row's ID is null or occurs more than once in its table.
Unkeyable(df, row) == row[IdCol] = None \/ IdCount(df, row[IdCol]) > 1

\* C8: every changed row has a non-null ID that occurs exactly once in each
\* table; a row whose ID is null or repeated in its own table is never in
\* the changed section and is classified by full-row equality alone: a
\* duplicate if the other table has the same row, otherwise 'New Entry'
\* (new table) or 'Removed Entry' (benchmark table).
C8_NoPairingOfUnkeyable ==
    Compared =>
        /\ \A k \in 1..Len(unique_entities) :
              LET u == unique_entities[k]
              IN Section(u) = 1 => /\ u[IdCol] # None
                                   /\ IdCount(DfBenchmark, u[IdCol]) = 1
                                   /\ IdCount(DfNew, u[IdCol]) = 1
        /\ \A row \in RowSet(DfNew) :
              Unkeyable(DfNew, row) =>
                 /\ row \notin RowSet(SectionRows(unique_entities, 1))
                 /\ row \in RowSet(duplicates) <=> row \in RowSet(DfBenchmark)
                 /\ row \in RowSet(SectionRows(unique_entities, 2)) <=> row \notin RowSet(DfBenchmark)
        /\ \A row \in RowSet(DfBenchmark) :
              Unkeyable(DfBenchmark, row) =>
                 /\ row \in RowSet(duplicates) <=> row \in RowSet(DfNew)
                 /\ row \in RowSet(SectionRows(unique_entities, 3)) <=> row \notin RowSet(DfNew)

\* C8 witness: a comparison of tables that share an ID which the new table
\* has in two rows of different content, and that hold a row with a null ID.
C8_Witness ==
    /\ Compared
    /\ \E id_val \in common_ids(DfBenchmark, DfNew) :
          /\ IdCount(DfNew, id_val) = 2
          /\ rows_with_id(DfNew, id_val)[1] # rows_with_id(DfNew, id_val)[2]
          /\ rows_with_id(DfBenchmark, id_val)[1] # rows_with_id(DfNew, id_val)[1]
    /\ None \in IdsOf(DfBenchmark)

\* C9: within each section the rows follow the order of their source table:
\* the changed rows and the 'New Entry' rows that of the new table, the
\* 'Removed Entry' rows that of the benchmark table.
C9_SourceOrder ==
    Compared =>
        /\ IsSubSeq(SectionRows(unique_entities, 1), DfNew)
        /\ IsSubSeq(SectionRows(unique_entities, 2), DfNew)
        /\ IsSubSeq(SectionRows(unique_entities, 3), DfBenchmark)

\* C10: whatever a client downloads after its own /compare was answered is
\* the file its own request wrote.
C10_OwnFiles ==
    \A c \in Clients : \A f \in FileNames :
        (client_pc[c] = "responded" /\ received[c][f].status = 200) => received[c][f].file = c

====
